---- MODULE Spec2Model ----
(***************************************************************************)
(* A model of chess_gui.py: the click-driven selection / move resolution   *)
(* of ChessGUI, the manual placement editor, the board operations (reset,  *)
(* clear, flip side, load FEN) and the per-request engine session of       *)
(* get_best_move.                                                          *)
(*                                                                         *)
(* The python-chess board is modelled on a reduced board of NumFiles x     *)
(* NumRanks squares with the rules the handlers rely on: pseudo-legal      *)
(* moves of the six piece types, promotion on the last rank, the "not      *)
(* into check" filter, Board.push, Board.clear, Board.reset and the        *)
(* validate-then-apply order of Board.set_fen.  Castling, the pawn double  *)
(* step and en passant need the full 8x8 board and are left out.           *)
(***************************************************************************)
EXTENDS Integers, Sequences, FiniteSets, TLC

\* ------------------------------------------------------------ bounds
NumFiles == 2
NumRanks == 4
MaxSteps == 3

\* ------------------------------------------------------------ constants
\* ENGINE_TIME = 0.25 seconds, in hundredths of a second
ENGINE_TIME == 25

None == "None"
\* the falsy selected_square / best_move_info
NoSquare == <<>>
NoMove == <<>>
\* the text a label shows when nothing is cached
Dash == [text |-> "-"]
WHITE == TRUE
BLACK == FALSE

VARIABLES
    board,            \* self.board: square index -> piece symbol or None
    turn,             \* self.board.turn
    selected_square,  \* self.selected_square: a square name or None
    best_move_info,   \* self.best_move_info
    best_move_label,  \* text of self.best_move_label after "Best move: "
    eval_label,       \* text of self.eval_label after "Eval: "
    time_var,         \* content of the "Engine time (s)" entry
    pc,               \* position inside get_best_move, "idle" between handlers
    call,             \* locals of the running get_best_move
    alive,            \* engine processes spawned and not terminated
    last,             \* the last handler that returned, with the state it started in
    steps             \* handlers started so far

vars == <<board, turn, selected_square, best_move_info, best_move_label,
          eval_label, time_var, pc, call, alive, last, steps>>

\* ------------------------------------------------------------ squares
Files == 1..NumFiles
Ranks == 1..NumRanks
Squares == 0..(NumFiles * NumRanks - 1)
\* a square name such as 'e2' is the pair <<file, rank>>
SquareNames == {<<f, r>> : f \in Files, r \in Ranks}

\* chess.square(file_index, rank_index)
square(f, r) == r * NumFiles + f
square_file(s) == s % NumFiles
square_rank(s) == s \div NumFiles
\* chess.parse_square(name)
parse_square(n) == square(n[1] - 1, n[2] - 1)
\* chess.square_name(square)
square_name(s) == <<square_file(s) + 1, square_rank(s) + 1>>

\* ------------------------------------------------------------ pieces
WhiteSymbols == {"P", "N", "B", "R", "Q", "K"}
BlackSymbols == {"p", "n", "b", "r", "q", "k"}
Symbols == WhiteSymbols \cup BlackSymbols

upper(c) ==
    CASE c = "p" -> "P" [] c = "n" -> "N" [] c = "b" -> "B"
      [] c = "r" -> "R" [] c = "q" -> "Q" [] c = "k" -> "K"
      [] c = "w" -> "W" [] OTHER -> c

lower(c) ==
    CASE c = "P" -> "p" [] c = "N" -> "n" [] c = "B" -> "b"
      [] c = "R" -> "r" [] c = "Q" -> "q" [] c = "K" -> "k"
      [] c = "W" -> "w" [] OTHER -> c

\* piece.color
piece_color(p) == p \in WhiteSymbols
\* piece.piece_type, as the lower-case letter
piece_type(p) == lower(p)
\* chess.Piece(piece_type, color).symbol()
piece_symbol(t, c) == IF c = WHITE THEN upper(t) ELSE lower(t)

Abs(x) == IF x < 0 THEN -x ELSE x
Sgn(x) == IF x < 0 THEN -1 ELSE IF x > 0 THEN 1 ELSE 0
Max(x, y) == IF x > y THEN x ELSE y

\* ------------------------------------------------------------ rules
\* Board.attacks_mask(s) & BB_SQUARES[t]: the piece on s attacks t
Attacks(b, s, t) ==
    LET p  == b[s]
        df == square_file(t) - square_file(s)
        dr == square_rank(t) - square_rank(s)
        n  == Max(Abs(df), Abs(dr))
        clear == \A k \in 1..(n - 1) :
                    b[square(square_file(s) + k * Sgn(df),
                             square_rank(s) + k * Sgn(dr))] = None
        straight == (df = 0) # (dr = 0)
        diagonal == Abs(df) = Abs(dr) /\ df # 0
    IN  /\ p # None
        /\ s # t
        /\ CASE p = "P" -> dr = 1 /\ Abs(df) = 1
             [] p = "p" -> dr = -1 /\ Abs(df) = 1
             [] piece_type(p) = "n" -> {Abs(df), Abs(dr)} = {1, 2}
             [] piece_type(p) = "k" -> n = 1
             [] piece_type(p) = "r" -> straight /\ clear
             [] piece_type(p) = "b" -> diagonal /\ clear
             [] piece_type(p) = "q" -> (straight \/ diagonal) /\ clear
             [] OTHER -> FALSE

\* Board.is_attacked_by(color, t)
is_attacked_by(b, c, t) ==
    \E s \in Squares : b[s] # None /\ piece_color(b[s]) = c /\ Attacks(b, s, t)

\* Board.king(color): the king of that colour on the highest square, -1 for None
king(b, c) ==
    LET ks == {s \in Squares : b[s] = piece_symbol("k", c)}
    IN  IF ks = {} THEN -1 ELSE CHOOSE s \in ks : \A o \in ks : o <= s

\* the last rank for the side to move
BackRank(c) == IF c = WHITE THEN NumRanks - 1 ELSE 0

Moves == [from_square : Squares, to_square : Squares,
          promotion : {None, "q", "r", "b", "n"}]

\* the board part of Board.push(move)
PushBoard(b, m) ==
    LET p == b[m.from_square]
        q == IF m.promotion # None /\ p # None
             THEN piece_symbol(m.promotion, piece_color(p)) ELSE p
    IN  [b EXCEPT ![m.from_square] = None, ![m.to_square] = q]

\* Board.generate_pseudo_legal_moves restricted to the pawn on m.from_square
PawnMove(b, c, m) ==
    LET s  == m.from_square
        t  == m.to_square
        df == square_file(t) - square_file(s)
        dr == square_rank(t) - square_rank(s)
        fwd == IF c = WHITE THEN 1 ELSE -1
        capture == Attacks(b, s, t) /\ b[t] # None /\ piece_color(b[t]) # c
        single  == df = 0 /\ dr = fwd /\ b[t] = None
    IN  /\ capture \/ single
        /\ IF square_rank(t) = BackRank(c)
           THEN m.promotion # None
           ELSE m.promotion = None

\* Board.is_pseudo_legal(move)
is_pseudo_legal(b, c, m) ==
    LET p == b[m.from_square]
    IN  /\ p # None
        /\ piece_color(p) = c
        /\ m.promotion # None =>
              piece_type(p) = "p" /\ square_rank(m.to_square) = BackRank(c)
        /\ ~(b[m.to_square] # None /\ piece_color(b[m.to_square]) = c)
        /\ IF piece_type(p) = "p"
           THEN PawnMove(b, c, m)
           ELSE Attacks(b, m.from_square, m.to_square)

\* Board.is_into_check(move)
is_into_check(b, c, m) ==
    LET b2 == PushBoard(b, m)
        k  == king(b2, c)
    IN  k # -1 /\ is_attacked_by(b2, ~c, k)

\* move in self.board.legal_moves
is_legal(b, c, m) == is_pseudo_legal(b, c, m) /\ ~is_into_check(b, c, m)

legal_moves(b, c) == {m \in Moves : is_legal(b, c, m)}

\* ------------------------------------------------------------ positions
EmptyBoard == [s \in Squares |-> None]

\* the back rank of chess.Board(), cut to the board's width
BackRow == <<"k", "r", "n", "b", "q">>

\* chess.Board(): the starting position (pieces on the two outer ranks of
\* each side, white to move)
StartBoard ==
    [s \in Squares |->
        LET f == square_file(s) + 1
            r == square_rank(s) + 1
            t == BackRow[((f - 1) % Len(BackRow)) + 1]
        IN  CASE r = 1            -> piece_symbol(t, WHITE)
              [] r = 2            -> "P"
              [] r = NumRanks - 1 -> "p"
              [] r = NumRanks     -> piece_symbol(t, BLACK)
              [] OTHER            -> None]

\* ------------------------------------------------------------ text input
\* str.strip() of a sequence of characters
RECURSIVE lstrip(_)
lstrip(cs) == IF cs # <<>> /\ Head(cs) = " " THEN lstrip(Tail(cs)) ELSE cs
RECURSIVE rstrip(_)
rstrip(cs) ==
    IF cs # <<>> /\ cs[Len(cs)] = " " THEN rstrip(SubSeq(cs, 1, Len(cs) - 1)) ELSE cs
strip(cs) == rstrip(lstrip(cs))
\* str.lower()
lower_str(cs) == [i \in 1..Len(cs) |-> lower(cs[i])]

\* ------------------------------------------------------------ FEN
\* A FEN string is the sequence of its whitespace-separated parts, each part
\* a sequence of characters: <<board part, turn part>>.
Digits == {"1", "2", "3", "4", "5", "6", "7", "8"}
DigitValue(c) ==
    CASE c = "1" -> 1 [] c = "2" -> 2 [] c = "3" -> 3 [] c = "4" -> 4
      [] c = "5" -> 5 [] c = "6" -> 6 [] c = "7" -> 7 [] c = "8" -> 8
      [] OTHER -> 0

\* fen.split("/")
RECURSIVE split_rows(_, _)
split_rows(cs, cur) ==
    IF cs = <<>> THEN <<cur>>
    ELSE IF Head(cs) = "/" THEN <<cur>> \o split_rows(Tail(cs), <<>>)
    ELSE split_rows(Tail(cs), Append(cur, Head(cs)))

\* the row validation loop of Board._set_board_fen
RECURSIVE row_sum(_, _)
row_sum(row, prev_digit) ==
    IF row = <<>> THEN 0
    ELSE LET c == Head(row)
         IN  IF c \in Digits
             THEN IF prev_digit THEN -100
                  ELSE DigitValue(c) + row_sum(Tail(row), TRUE)
             ELSE IF lower(c) \in BlackSymbols
             THEN 1 + row_sum(Tail(row), FALSE)
             ELSE -100

board_fen_valid(part) ==
    LET rows == split_rows(part, <<>>)
    IN  /\ Len(rows) = NumRanks
        /\ \A i \in 1..Len(rows) : row_sum(rows[i], FALSE) = NumFiles

\* the placement loop of Board._set_board_fen: rows run from the top rank down
RECURSIVE place_row(_, _, _, _)
place_row(b, row, f, r) ==
    IF row = <<>> THEN b
    ELSE LET c == Head(row)
         IN  IF c \in Digits
             THEN place_row(b, Tail(row), f + DigitValue(c), r)
             ELSE place_row([b EXCEPT ![square(f, r)] = c], Tail(row), f + 1, r)

RECURSIVE place_rows(_, _, _)
place_rows(b, rows, r) ==
    IF rows = <<>> THEN b
    ELSE place_rows(place_row(b, Head(rows), 0, r), Tail(rows), r - 1)

board_from_fen(part) == place_rows(EmptyBoard, split_rows(part, <<>>), NumRanks - 1)

turn_part_valid(fen) == Len(fen) < 2 \/ fen[2] \in {<<"w">>, <<"b">>}
turn_from_fen(fen) == IF Len(fen) < 2 THEN WHITE ELSE fen[2] = <<"w">>

\* the castling, en passant and move counter parts; the reduced board has no
\* en passant square, so only "-" is a valid en passant part
NumberChars == Digits \cup {"0", "9"}
is_number(part) == part # <<>> /\ \A i \in 1..Len(part) : part[i] \in NumberChars
castling_part_valid(fen) ==
    Len(fen) < 3 \/ fen[3] = <<"-">>
                 \/ (fen[3] # <<>> /\ \A i \in 1..Len(fen[3]) : fen[3][i] \in {"K", "Q", "k", "q"})
ep_part_valid(fen) == Len(fen) < 4 \/ fen[4] = <<"-">>
halfmove_part_valid(fen) == Len(fen) < 5 \/ is_number(fen[5])
fullmove_part_valid(fen) == Len(fen) < 6 \/ is_number(fen[6])

\* Board.set_fen(fen) raises ValueError: every part is validated before the
\* board is touched
set_fen_raises(fen) ==
    \/ fen = <<>>
    \/ ~turn_part_valid(fen)
    \/ ~castling_part_valid(fen)
    \/ ~ep_part_valid(fen)
    \/ ~halfmove_part_valid(fen)
    \/ ~fullmove_part_valid(fen)
    \/ Len(fen) > 6
    \/ ~board_fen_valid(fen[1])

\* ------------------------------------------------------------ moves
\* chess.Move.from_uci(uci) raises: origin and destination are the same square
from_uci_raises(uci) == <<uci[1], uci[2]>> = <<uci[3], uci[4]>>

\* chess.Move.from_uci(uci)
from_uci(uci) ==
    [from_square |-> parse_square(<<uci[1], uci[2]>>),
     to_square   |-> parse_square(<<uci[3], uci[4]>>),
     promotion   |-> IF Len(uci) = 5 THEN uci[5] ELSE None]

\* move.uci()
uci_of(m) ==
    square_name(m.from_square) \o square_name(m.to_square)
        \o (IF m.promotion = None THEN <<>> ELSE <<m.promotion>>)

\* Board.san(move), without the check suffix
san(b, m) ==
    LET p == b[m.from_square]
        capture == b[m.to_square] # None
    IN  [piece   |-> IF piece_type(p) = "p" THEN "" ELSE upper(p),
         file    |-> IF piece_type(p) = "p" /\ capture
                     THEN square_file(m.from_square) + 1 ELSE 0,
         capture |-> capture,
         to      |-> square_name(m.to_square),
         promo   |-> IF m.promotion = None THEN "" ELSE upper(m.promotion)]

\* a promotion loop that tries the knight first
PromotionOrderKnightFirst == <<"n", "b", "r", "q">>

\* the order in which on_square_click tries the promotion pieces
PromotionOrder == <<"q", "r", "b", "n">>

\* on_square_click, lines 138-155: the move the click pair resolves to,
\* <<>> when there is none
ResolveMove(b, c, uci) ==
    LET u == from_uci(uci)
        promos == {i \in 1..Len(PromotionOrder) :
                      is_legal(b, c, from_uci(uci \o <<PromotionOrder[i]>>))}
    IN  IF is_legal(b, c, u) THEN <<u>>
        ELSE IF promos = {} THEN <<>>
        ELSE LET i == CHOOSE k \in promos : \A o \in promos : k <= o
             IN  <<from_uci(uci \o <<PromotionOrder[i]>>)>>

\* ------------------------------------------------------------ records
Snap ==
    [board |-> board, turn |-> turn, sel |-> selected_square,
     info |-> best_move_info, bml |-> best_move_label, evl |-> eval_label]

InitSnap ==
    [board |-> StartBoard, turn |-> WHITE, sel |-> NoSquare,
     info |-> NoMove, bml |-> Dash, evl |-> Dash]

\* the engine side of one get_best_move call: processes spawned, quit requests
\* sent, the requests in order, what failed, whether the process is alive, the
\* move engine.play answered and the answer of engine.analyse
NoEngine == [spawned |-> 0, quits |-> 0, events |-> <<>>, failures |-> {},
             running |-> FALSE, move |-> NoMove,
             score |-> [kind |-> "none", n |-> 0]]

\* what the handler that returned last did, and the state it started in
Returned(op, sq, choice, fen, result, notes, raised, eng, pre) ==
    [op |-> op, sq |-> sq, choice |-> choice, fen |-> fen, result |-> result,
     notes |-> notes, raised |-> raised, eng |-> eng, pre |-> pre,
     prev |-> [op |-> last.op, idle |-> last.pre.sel = NoSquare,
               turn |-> last.pre.turn],
     query |-> IF op = "get_best_move" /\ result \in {"shown", "applied"}
               THEN [board |-> pre.board, turn |-> pre.turn]
               ELSE last.query]

NoCall == [t |-> 0, best |-> NoMove, val |-> Dash,
           eng |-> NoEngine, notes |-> <<>>, pre |-> InitSnap]

\* ------------------------------------------------------------ inputs
\* what the user types into the "Place Piece" dialog (<<>>: cancelled)
PlaceInputs ==
    { <<>>,
      <<"w", "q">>, <<" ", "B", "P", " ">>,
      <<"r", "e", "m", "o", "v", "e">>,
      <<"w">>, <<"w", "x">>, <<"x", "q">> }

\* the digit character of a run of n empty squares
DigitChar(n) == CHOOSE c \in Digits : DigitValue(c) = n

\* the middle ranks of a FEN with nothing on them
RECURSIVE EmptyRows(_)
EmptyRows(n) ==
    IF n <= 0 THEN <<>> ELSE <<"/", DigitChar(NumFiles)>> \o EmptyRows(n - 1)

WidthLess1 == DigitChar(NumFiles - 1)

\* "k./../../K." : two kings
KingsFen == <<"k", WidthLess1>> \o EmptyRows(NumRanks - 2) \o <<"/", "K", WidthLess1>>
\* a white pawn one step from promotion, the black king out of its way
PromoFen == <<WidthLess1, "k", "/", "P", WidthLess1>> \o EmptyRows(NumRanks - 3)
                \o <<"/", "K", WidthLess1>>

\* what the user pastes into the "Load FEN" dialog (<<>>: cancelled)
FenInputs ==
    { <<>>,
      <<KingsFen, <<"b">>, <<"-">>, <<"-">>, <<"0">>, <<"1">> >>,
      <<PromoFen, <<"w">> >>,
      <<PromoFen>>,
      << <<"n", "o", "t", "-", "a", "-", "f", "e", "n">> >>,
      <<KingsFen, <<"x">> >>,
      <<PromoFen, <<"b">>, <<"-">>, <<"-">>, <<"x">> >> }

\* what the "Engine time (s)" entry holds: a number (hundredths of a second)
\* or text DoubleVar.get() cannot convert
TimeInputs ==
    { [valid |-> TRUE, v |-> 100], [valid |-> TRUE, v |-> 0],
      [valid |-> TRUE, v |-> -50], [valid |-> FALSE, v |-> 0] }

\* ------------------------------------------------------------ the session
\* ChessGUI.__init__
Init ==
    /\ board = StartBoard
    /\ turn = WHITE
    /\ selected_square = NoSquare
    /\ best_move_info = NoMove
    /\ best_move_label = Dash
    /\ eval_label = Dash
    /\ time_var = [valid |-> TRUE, v |-> ENGINE_TIME]
    /\ pc = "idle"
    /\ call = NoCall
    /\ alive = 0
    /\ last = [op |-> "__init__", sq |-> NoSquare, choice |-> <<>>, fen |-> <<>>,
               result |-> "", notes |-> <<>>, raised |-> FALSE, eng |-> NoEngine,
               pre |-> InitSnap, prev |-> [op |-> "", idle |-> TRUE, turn |-> WHITE],
               query |-> [board |-> StartBoard, turn |-> WHITE]]
    /\ steps = 0

\* a handler may start: no other handler is running (the event loop is
\* single-threaded and get_best_move blocks it)
CanStart == pc = "idle" /\ steps < MaxSteps

EngineUnchanged == UNCHANGED <<time_var, pc, call, alive>>

\* on_square_click(sq) with nothing selected, lines 129-135
ClickPick(sq) ==
    /\ CanStart
    /\ selected_square = NoSquare
    /\ selected_square' =
          IF board[parse_square(sq)] # None THEN sq ELSE NoSquare
    /\ last' = Returned("on_square_click", sq, <<>>, <<>>, "pick", <<>>, FALSE,
                        NoEngine, Snap)
    /\ steps' = steps + 1
    /\ UNCHANGED <<board, turn, best_move_info, best_move_label, eval_label>>
    /\ EngineUnchanged

\* on_square_click(sq) with a square selected, Move.from_uci raising on a
\* click on the selected square itself: the handler is left at line 141
ClickRaises(sq) ==
    /\ CanStart
    /\ selected_square # NoSquare
    /\ from_uci_raises(selected_square \o sq)
    /\ last' = Returned("on_square_click", sq, <<>>, <<>>, "raised", <<>>, TRUE,
                        NoEngine, Snap)
    /\ steps' = steps + 1
    /\ UNCHANGED <<board, turn, selected_square, best_move_info,
                   best_move_label, eval_label>>
    /\ EngineUnchanged

\* a click handler that drops the selection after every move that is not legal
ReselectNever(b, sq) == NoSquare

\* on_square_click, lines 163-168: a move that is not legal reselects an
\* occupied square and clears the selection on an empty one
Reselect(b, sq) == IF b[parse_square(sq)] # None THEN sq ELSE NoSquare

\* a committed move that leaves the evaluation label as it was
ClickMoveKeepsEval(sq) ==
    /\ CanStart
    /\ selected_square # NoSquare
    /\ LET uci  == selected_square \o sq
           move == ResolveMove(board, turn, uci)
       IN  IF move # <<>> /\ is_legal(board, turn, move[1])
           THEN /\ board' = PushBoard(board, move[1])
                /\ turn' = ~turn
                /\ selected_square' = NoSquare
                /\ best_move_info' = NoMove
                /\ best_move_label' = Dash
                /\ UNCHANGED eval_label
                /\ last' = Returned("on_square_click", sq, <<>>, <<>>, "moved",
                                    <<>>, FALSE, NoEngine, Snap)
           ELSE /\ selected_square' = Reselect(board, sq)
                /\ last' = Returned("on_square_click", sq, <<>>, <<>>, "no move",
                                    <<>>, FALSE, NoEngine, Snap)
                /\ UNCHANGED <<board, turn, best_move_info, best_move_label,
                               eval_label>>
    /\ steps' = steps + 1
    /\ EngineUnchanged

\* on_square_click(sq) with a square selected, lines 137-168.  A click on the
\* selected square itself gets here only with a python-chess whose from_uci
\* accepts equal squares; no move is legal for it
ClickMove(sq) ==
    /\ CanStart
    /\ selected_square # NoSquare
    /\ LET uci  == selected_square \o sq
           move == ResolveMove(board, turn, uci)
       IN  IF move # <<>> /\ is_legal(board, turn, move[1])
           THEN /\ board' = PushBoard(board, move[1])
                /\ turn' = ~turn
                /\ selected_square' = NoSquare
                /\ best_move_info' = NoMove
                /\ best_move_label' = Dash
                /\ eval_label' = Dash
                /\ last' = Returned("on_square_click", sq, <<>>, <<>>, "moved",
                                    <<>>, FALSE, NoEngine, Snap)
           ELSE /\ selected_square' = Reselect(board, sq)
                /\ last' = Returned("on_square_click", sq, <<>>, <<>>, "no move",
                                    <<>>, FALSE, NoEngine, Snap)
                /\ UNCHANGED <<board, turn, best_move_info, best_move_label,
                               eval_label>>
    /\ steps' = steps + 1
    /\ EngineUnchanged

\* a placement dialog that checks the colour letter only
PlaceChoiceAnyPiece(typed) ==
    LET choice == lower_str(strip(typed))
    IN  IF choice = <<"r", "e", "m", "o", "v", "e">> THEN "remove"
        ELSE IF Len(choice) >= 2 /\ choice[1] \in {"w", "b"}
        THEN piece_symbol(choice[2], choice[1] = "w")
        ELSE ""

\* right_click_place, lines 181-195: "remove", a piece symbol, or "" for an
\* input that is not valid
PlaceChoice(typed) ==
    LET choice == lower_str(strip(typed))
    IN  IF choice = <<"r", "e", "m", "o", "v", "e">> THEN "remove"
        ELSE IF /\ Len(choice) >= 2
                /\ choice[1] \in {"w", "b"}
                /\ choice[2] \in {"p", "n", "b", "r", "q", "k"}
        THEN piece_symbol(choice[2], choice[1] = "w")
        ELSE ""

\* right_click_place(event, sq)
RightClickPlace(sq, typed) ==
    /\ CanStart
    /\ LET what == PlaceChoice(typed)
       IN  IF typed = <<>>
           THEN /\ last' = Returned("right_click_place", NoSquare, typed, <<>>, "cancel",
                                    <<>>, FALSE, NoEngine, Snap)
                /\ UNCHANGED <<board, best_move_info, best_move_label, eval_label>>
           ELSE IF what = ""
           THEN /\ last' = Returned("right_click_place", NoSquare, typed, <<>>, "invalid",
                                    <<"Input not valid">>, FALSE, NoEngine, Snap)
                /\ UNCHANGED <<board, best_move_info, best_move_label, eval_label>>
           ELSE /\ board' = [board EXCEPT ![parse_square(sq)] =
                                IF what = "remove" THEN None ELSE what]
                /\ best_move_info' = NoMove
                /\ best_move_label' = Dash
                /\ eval_label' = Dash
                /\ last' = Returned("right_click_place", sq, typed, <<>>,
                                    IF what = "remove" THEN "removed" ELSE "placed",
                                    <<>>, FALSE, NoEngine, Snap)
    /\ steps' = steps + 1
    /\ UNCHANGED <<turn, selected_square>>
    /\ EngineUnchanged

\* a reset that forgets to clear the selection
ResetBoardKeepsSelection ==
    /\ CanStart
    /\ board' = StartBoard
    /\ turn' = WHITE
    /\ best_move_info' = NoMove
    /\ best_move_label' = Dash
    /\ eval_label' = Dash
    /\ last' = Returned("reset_board", NoSquare, <<>>, <<>>, "", <<>>, FALSE,
                        NoEngine, Snap)
    /\ steps' = steps + 1
    /\ UNCHANGED selected_square
    /\ EngineUnchanged

\* reset_board: Board.reset() restores the starting position, white to move
ResetBoard ==
    /\ CanStart
    /\ board' = StartBoard
    /\ turn' = WHITE
    /\ selected_square' = NoSquare
    /\ best_move_info' = NoMove
    /\ best_move_label' = Dash
    /\ eval_label' = Dash
    /\ last' = Returned("reset_board", NoSquare, <<>>, <<>>, "", <<>>, FALSE,
                        NoEngine, Snap)
    /\ steps' = steps + 1
    /\ EngineUnchanged

\* Board.clear(): no pieces, and the side to move is white
ClearedTurn(t) == WHITE

\* clear_pieces
ClearPieces ==
    /\ CanStart
    /\ board' = EmptyBoard
    /\ turn' = ClearedTurn(turn)
    /\ selected_square' = NoSquare
    /\ best_move_info' = NoMove
    /\ best_move_label' = Dash
    /\ eval_label' = Dash
    /\ last' = Returned("clear_pieces", NoSquare, <<>>, <<>>, "", <<>>, FALSE,
                        NoEngine, Snap)
    /\ steps' = steps + 1
    /\ EngineUnchanged

\* a flip that also drops the selection
FlipSideDeselects ==
    /\ CanStart
    /\ turn' = ~turn
    /\ selected_square' = NoSquare
    /\ last' = Returned("flip_side", NoSquare, <<>>, <<>>, "", <<>>, FALSE,
                        NoEngine, Snap)
    /\ steps' = steps + 1
    /\ UNCHANGED <<board, best_move_info, best_move_label, eval_label>>
    /\ EngineUnchanged

\* flip_side
FlipSide ==
    /\ CanStart
    /\ turn' = ~turn
    /\ last' = Returned("flip_side", NoSquare, <<>>, <<>>, "", <<>>, FALSE,
                        NoEngine, Snap)
    /\ steps' = steps + 1
    /\ UNCHANGED <<board, selected_square, best_move_info, best_move_label,
                   eval_label>>
    /\ EngineUnchanged

\* a loader that sets the pieces before the other parts are validated
LoadedPositionPartial(b, t, fen) ==
    IF fen # <<>> /\ board_fen_valid(fen[1])
    THEN [board |-> board_from_fen(fen[1]),
          turn |-> IF set_fen_raises(fen) THEN t ELSE turn_from_fen(fen)]
    ELSE [board |-> b, turn |-> t]

\* load_fen_dialog, lines 226-230: the position after the try statement
LoadedPosition(b, t, fen) ==
    IF set_fen_raises(fen)
    THEN [board |-> b, turn |-> t]
    ELSE [board |-> board_from_fen(fen[1]), turn |-> turn_from_fen(fen)]

\* load_fen_dialog
LoadFenDialog(fen) ==
    /\ CanStart
    /\ IF fen = <<>>
       THEN /\ last' = Returned("load_fen_dialog", NoSquare, <<>>, fen, "cancel",
                                <<>>, FALSE, NoEngine, Snap)
            /\ UNCHANGED <<board, turn>>
       ELSE /\ board' = LoadedPosition(board, turn, fen).board
            /\ turn' = LoadedPosition(board, turn, fen).turn
            /\ last' = IF set_fen_raises(fen)
                       THEN Returned("load_fen_dialog", NoSquare, <<>>, fen, "invalid",
                                     <<"Invalid FEN">>, FALSE, NoEngine, Snap)
                       ELSE Returned("load_fen_dialog", NoSquare, <<>>, fen, "loaded",
                                     <<>>, FALSE, NoEngine, Snap)
    /\ steps' = steps + 1
    /\ UNCHANGED <<selected_square, best_move_info, best_move_label, eval_label>>
    /\ EngineUnchanged

\* the user edits the "Engine time (s)" entry
EditTime(v) ==
    /\ pc = "idle"
    /\ steps < MaxSteps
    /\ time_var # v
    /\ time_var' = v
    /\ steps' = steps + 1
    /\ UNCHANGED <<board, turn, selected_square, best_move_info, best_move_label,
                   eval_label, pc, call, alive, last>>

\* ------------------------------------------------------------ the engine
Event(e, t) == [e |-> e, t |-> t]

\* engine.quit(): the request is sent and the process ends; a second request
\* finds no process
QuitEngine(c) ==
    [c EXCEPT !.eng.running = FALSE,
              !.eng.quits = c.eng.quits + 1,
              !.eng.events = Append(c.eng.events, Event("quit", 0))]

\* the processes alive once the call went from c to d
AliveAfter(c, d) == IF c.eng.running /\ ~d.eng.running THEN alive - 1 ELSE alive

\* what the engine answers to engine.analyse: a failure, an info without a
\* score, or a score relative to the side to move
AnalyseAnswers ==
    { [kind |-> "fail", n |-> 0], [kind |-> "noscore", n |-> 0],
      [kind |-> "mate", n |-> 3],
      [kind |-> "cp", n |-> 150], [kind |-> "cp", n |-> -150] }

\* a score taken as the engine gives it, relative to the side to move
WhiteScoreRelative(n, t) == n

\* PovScore.white().score(mate_score=100000) of a centipawn score
WhiteScore(n, t) == IF t = WHITE THEN n ELSE -n

\* f"{cp/100:.2f}"
FormatCp(cp) ==
    [text |-> "cp", neg |-> cp < 0, whole |-> Abs(cp) \div 100, frac |-> Abs(cp) % 100]

\* an evaluation text that shows a missing score as 0.00
EvalTextZeroForMissing(a, t) ==
    CASE a.kind = "fail"    -> Dash
      [] a.kind = "noscore" -> FormatCp(0)
      [] a.kind = "mate"    -> Dash
      [] OTHER              -> FormatCp(WhiteScore(a.n, t))

\* get_best_move, lines 262-276: the evaluation text.  score is a PovScore,
\* which has no mate() method: the call raises and the except clause answers
EvalText(a, t) ==
    CASE a.kind = "fail"    -> Dash
      [] a.kind = "noscore" -> Dash
      [] a.kind = "mate"    -> Dash
      [] OTHER              -> FormatCp(WhiteScore(a.n, t))

\* get_best_move returns (or an exception leaves it)
ReturnFromCall(c, result, raised) ==
    /\ last' = Returned("get_best_move", NoSquare, <<>>, <<>>, result, c.notes,
                        raised, c.eng, c.pre)
    /\ pc' = "idle"
    /\ call' = NoCall

\* a spawn failure that also drops the selection
GetBestMoveDeselectsOnFailure(ok) ==
    /\ CanStart
    /\ steps' = steps + 1
    /\ IF ok
       THEN /\ call' = [NoCall EXCEPT !.pre = Snap,
                           !.eng = [NoEngine EXCEPT !.spawned = 1,
                                       !.events = <<Event("spawn", 0)>>,
                                       !.running = TRUE]]
            /\ alive' = alive + 1
            /\ pc' = "time"
            /\ UNCHANGED <<last, selected_square>>
       ELSE /\ last' = Returned("get_best_move", NoSquare, <<>>, <<>>,
                                "EngineUnavailable", <<"Engine not found">>, FALSE,
                                [NoEngine EXCEPT !.failures = {"spawn"}], Snap)
            /\ selected_square' = NoSquare
            /\ UNCHANGED <<pc, call, alive>>
    /\ UNCHANGED <<board, turn, best_move_info, best_move_label,
                   eval_label, time_var>>

\* get_best_move, lines 232-248: spawn the engine
GetBestMove(ok) ==
    /\ CanStart
    /\ steps' = steps + 1
    /\ IF ok
       THEN /\ call' = [NoCall EXCEPT !.pre = Snap,
                           !.eng = [NoEngine EXCEPT !.spawned = 1,
                                       !.events = <<Event("spawn", 0)>>,
                                       !.running = TRUE]]
            /\ alive' = alive + 1
            /\ pc' = "time"
            /\ UNCHANGED last
       ELSE /\ last' = Returned("get_best_move", NoSquare, <<>>, <<>>,
                                "EngineUnavailable", <<"Engine not found">>, FALSE,
                                [NoEngine EXCEPT !.failures = {"spawn"}], Snap)
            /\ UNCHANGED <<pc, call, alive>>
    /\ UNCHANGED <<board, turn, selected_square, best_move_info, best_move_label,
                   eval_label, time_var>>

\* a time budget read that keeps a budget of zero
ReadTimeAcceptsZero ==
    /\ pc = "time"
    /\ IF time_var.valid
       THEN /\ call' = [call EXCEPT !.t = IF time_var.v >= 0 THEN time_var.v
                                          ELSE ENGINE_TIME]
            /\ pc' = "play"
            /\ UNCHANGED last
       ELSE ReturnFromCall([call EXCEPT !.eng.failures = @ \cup {"time"}],
                           "Raised", TRUE)
    /\ UNCHANGED <<board, turn, selected_square, best_move_info, best_move_label,
                   eval_label, time_var, alive, steps>>

\* get_best_move, line 251: the time budget, read before the try statement
ReadTime ==
    /\ pc = "time"
    /\ IF time_var.valid
       THEN /\ call' = [call EXCEPT !.t = IF time_var.v > 0 THEN time_var.v
                                          ELSE ENGINE_TIME]
            /\ pc' = "play"
            /\ UNCHANGED last
       ELSE ReturnFromCall([call EXCEPT !.eng.failures = @ \cup {"time"}],
                           "Raised", TRUE)
    /\ UNCHANGED <<board, turn, selected_square, best_move_info, best_move_label,
                   eval_label, time_var, alive, steps>>

\* the engine.play request of line 254 goes out
Asked == [call EXCEPT !.eng.events = Append(@, Event("play", call.t))]

PlayUnchanged ==
    UNCHANGED <<board, turn, selected_square, best_move_info, best_move_label,
                eval_label, time_var, steps>>

\* get_best_move, line 254: engine.play raises; the finally clause quits
PlayFails ==
    /\ pc = "play"
    /\ LET d == QuitEngine([Asked EXCEPT !.eng.failures = @ \cup {"play"}])
       IN  /\ ReturnFromCall(d, "Raised", TRUE)
           /\ alive' = AliveAfter(call, d)
    /\ PlayUnchanged

\* get_best_move, lines 256-259: the engine has no move; engine.quit() is
\* called, and called again by the finally clause
PlayNoMove ==
    /\ pc = "play"
    /\ legal_moves(board, turn) = {}
    /\ LET n == [Asked EXCEPT !.notes = Append(@, "No legal move")]
           d == QuitEngine(QuitEngine(n))
       IN  /\ ReturnFromCall(d, "NoLegalMove", FALSE)
           /\ alive' = AliveAfter(call, d)
    /\ PlayUnchanged

\* get_best_move, lines 254-255: the engine answers with a legal move
PlayMove(m) ==
    /\ pc = "play"
    /\ is_legal(board, turn, m)
    /\ call' = [Asked EXCEPT !.best = <<m>>, !.eng.move = <<m>>]
    /\ pc' = "analyse"
    /\ UNCHANGED <<last, alive>>
    /\ PlayUnchanged

\* get_best_move, lines 262-276
Analyse(a) ==
    /\ pc = "analyse"
    /\ call' = [call EXCEPT !.eng.events = Append(@, Event("analyse", call.t)),
                            !.eng.failures = IF a.kind = "fail" THEN @ \cup {"analyse"}
                                             ELSE @,
                            !.eng.score = a,
                            !.val = EvalText(a, turn)]
    /\ pc' = "show"
    /\ UNCHANGED <<board, turn, selected_square, best_move_info, best_move_label,
                   eval_label, time_var, alive, last, steps>>

\* get_best_move, lines 278-301: show the result, apply it if the user says
\* yes, quit the engine
Show(apply) ==
    /\ pc = "show"
    /\ LET best == call.best[1]
           d == QuitEngine(call)
       IN  /\ best_move_label' = [san |-> san(board, best), uci |-> uci_of(best)]
           /\ eval_label' = call.val
           /\ best_move_info' = call.best
           /\ IF apply
              THEN /\ board' = PushBoard(board, best)
                   /\ turn' = ~turn
              ELSE UNCHANGED <<board, turn>>
           /\ ReturnFromCall(d, IF apply THEN "applied" ELSE "shown", FALSE)
           /\ alive' = AliveAfter(call, d)
    /\ UNCHANGED <<selected_square, time_var, steps>>

Next ==
    \/ \E sq \in SquareNames : ClickPick(sq)
    \/ \E sq \in SquareNames : ClickRaises(sq)
    \/ \E sq \in SquareNames : ClickMove(sq)
    \/ \E sq \in SquareNames, typed \in PlaceInputs : RightClickPlace(sq, typed)
    \/ ResetBoard
    \/ ClearPieces
    \/ FlipSide
    \/ \E fen \in FenInputs : LoadFenDialog(fen)
    \/ \E v \in TimeInputs : EditTime(v)
    \/ \E ok \in BOOLEAN : GetBestMove(ok)
    \/ ReadTime
    \/ PlayFails
    \/ PlayNoMove
    \/ \E m \in Moves : PlayMove(m)
    \/ \E a \in AnalyseAnswers : Analyse(a)
    \/ \E apply \in BOOLEAN : Show(apply)

Spec == Init /\ [][Next]_vars

\* ------------------------------------------------------------ properties
Returns(op) == pc = "idle" /\ last.op = op

\* C1: every get_best_move call that spawned the engine has terminated it by
\* the time the call returns, on every exit path.
C1_EngineTerminatedOnReturn ==
    (Returns("get_best_move") /\ last.eng.spawned > 0) => ~last.eng.running

\* C2: a get_best_move call that ends with NoLegalMove started the engine
\* exactly once and requested its termination exactly once.
C2_NoLegalMoveStartsAndQuitsOnce ==
    (Returns("get_best_move") /\ last.result = "NoLegalMove")
        => (last.eng.spawned = 1 /\ last.eng.quits = 1)

\* no move, direct or promoting, leads from square name o to square name d
NoLegalConnection(b, c, o, d) ==
    \A promo \in {None, "q", "r", "b", "n"} :
        ~is_legal(b, c, [from_square |-> parse_square(o),
                         to_square |-> parse_square(d), promotion |-> promo])

\* the handler that returned last was the second click of a pair that started
\* in Idle on an occupied square
SecondClickOfPair ==
    /\ Returns("on_square_click")
    /\ last.prev.op = "on_square_click"
    /\ last.prev.idle
    /\ last.pre.sel # NoSquare

\* C3: from Idle, clicking an occupied sq1 and then a sq2 that no legal direct
\* or promotion move connects to it leaves the position unchanged and ends in
\* Idle (sq2 empty) or Selected(sq2) (sq2 occupied); the first click of the
\* pair selects sq1 and leaves the position unchanged.
C3_UnconnectedPairKeepsPosition ==
    /\ (Returns("on_square_click") /\ last.pre.sel = NoSquare)
          => /\ board = last.pre.board
             /\ turn = last.pre.turn
             /\ selected_square =
                   (IF last.pre.board[parse_square(last.sq)] # None
                    THEN last.sq ELSE NoSquare)
    /\ (SecondClickOfPair
          /\ NoLegalConnection(last.pre.board, last.pre.turn, last.pre.sel, last.sq))
          => /\ board = last.pre.board
             /\ turn = last.pre.turn
             /\ selected_square =
                   (IF last.pre.board[parse_square(last.sq)] = None
                    THEN NoSquare ELSE last.sq)

C3_Witness ==
    /\ SecondClickOfPair
    /\ NoLegalConnection(last.pre.board, last.pre.turn, last.pre.sel, last.sq)
    /\ last.sq # last.pre.sel
    /\ last.pre.board[parse_square(last.pre.sel)] # None
    /\ selected_square = last.sq

\* the promotion move from o to d with piece letter x
Promotion(o, d, x) ==
    [from_square |-> parse_square(o), to_square |-> parse_square(d), promotion |-> x]

\* the promotion the controller is to commit: queen if legal, else the first
\* legal one of rook, bishop, knight
PreferredPromotion(b, c, o, d) ==
    IF is_legal(b, c, Promotion(o, d, "q")) THEN Promotion(o, d, "q")
    ELSE IF is_legal(b, c, Promotion(o, d, "r")) THEN Promotion(o, d, "r")
    ELSE IF is_legal(b, c, Promotion(o, d, "b")) THEN Promotion(o, d, "b")
    ELSE Promotion(o, d, "n")

\* a click on a destination that only promotion moves reach from the selection
PromotionClick ==
    /\ Returns("on_square_click")
    /\ ~last.raised
    /\ last.pre.sel # NoSquare
    /\ ~is_legal(last.pre.board, last.pre.turn, Promotion(last.pre.sel, last.sq, None))
    /\ \E x \in {"q", "r", "b", "n"} :
          is_legal(last.pre.board, last.pre.turn, Promotion(last.pre.sel, last.sq, x))

C5_MalformedFenRejectedWhole ==
    (Returns("load_fen_dialog") /\ last.fen # <<>> /\ set_fen_raises(last.fen))
        => /\ last.notes = <<"Invalid FEN">>
           /\ board = last.pre.board
           /\ turn = last.pre.turn

C5_Witness ==
    /\ Returns("load_fen_dialog")
    /\ last.fen = <<KingsFen, <<"x">> >>
    /\ last.notes = <<"Invalid FEN">>
    /\ board # board_from_fen(KingsFen)
    /\ board # StartBoard

\* C6: after reset_board the position, turn, selection and cached best move
\* (with its labels) are those of a freshly constructed session.
C6_ResetEqualsFreshSession ==
    Returns("reset_board") => Snap = InitSnap

C6_Witness ==
    /\ Returns("reset_board")
    /\ last.pre.sel # NoSquare
    /\ last.pre.board # StartBoard
    /\ Snap = InitSnap

\* the handler that returned last changed the board by other means than a click
EditedBoard ==
    \/ Returns("reset_board")
    \/ Returns("clear_pieces")
    \/ Returns("load_fen_dialog") /\ last.result = "loaded"
    \/ Returns("right_click_place") /\ last.result \in {"placed", "removed"}

\* C7: immediately after reset, clear, a successful load, placePiece and
\* removePiece the controller is Idle.
C7_SelectionClearedOnEdit ==
    EditedBoard => selected_square = NoSquare

\* C8: clear_pieces empties every square and preserves the side to move.
C8_ClearPreservesTurn ==
    Returns("clear_pieces") => (board = EmptyBoard /\ turn = last.pre.turn)

\* the typed text names no colour in {w, b} or no piece in {p, n, b, r, q, k}
TagsUnrecognized(typed) ==
    LET choice == lower_str(strip(typed))
    IN  /\ choice # <<"r", "e", "m", "o", "v", "e">>
        /\ \/ Len(choice) < 2
           \/ choice[1] \notin {"w", "b"}
           \/ choice[2] \notin {"p", "n", "b", "r", "q", "k"}

\* C9: right_click_place with an unrecognized colour or piece tag reports
\* "Input not valid" and leaves the position as it was.
C9_BadTagPlacesNothing ==
    (Returns("right_click_place") /\ last.choice # <<>> /\ TagsUnrecognized(last.choice))
        => /\ last.notes = <<"Input not valid">>
           /\ board = last.pre.board
           /\ turn = last.pre.turn

C9_Witness ==
    /\ Returns("right_click_place")
    /\ last.choice = <<"w", "x">>
    /\ last.notes = <<"Input not valid">>
    /\ board = last.pre.board

\* C10: a get_best_move call in which the spawn, the best-move request or the
\* evaluation request failed returns normally with exactly one notification.
C10_EngineFailuresNotifiedOnce ==
    (Returns("get_best_move")
        /\ last.eng.failures \cap {"spawn", "play", "analyse"} # {})
        => (~last.raised /\ Len(last.notes) = 1)

\* C11: a get_best_move call that ends with EngineUnavailable or NoLegalMove
\* leaves position, turn, selection and the cached best move and evaluation as
\* they were before the call; with EngineUnavailable the call has no process.
C11_FailedQueryChangesNothing ==
    (Returns("get_best_move") /\ last.result \in {"EngineUnavailable", "NoLegalMove"})
        => /\ Snap = last.pre
           /\ last.result = "EngineUnavailable"
                 => (last.eng.spawned = 0 /\ last.eng.quits = 0 /\ ~last.eng.running)

C11_Witness ==
    /\ Returns("get_best_move")
    /\ last.result = "EngineUnavailable"
    /\ last.pre.sel # NoSquare
    /\ last.pre.board # StartBoard
    /\ Snap = last.pre

\* the call that returned last showed a best move
ShowedBestMove ==
    Returns("get_best_move") /\ last.result \in {"shown", "applied"}

\* the text "Mate in n"
MateText(n) == [text |-> "Mate in", n |-> n]

\* C12: when the evaluation request reports a forced mate in n, the evaluation
\* shown by get_best_move is "Mate in n".
C12_MateShownAsMateIn ==
    (ShowedBestMove /\ last.eng.score.kind = "mate")
        => eval_label = MateText(last.eng.score.n)

\* C13: when the evaluation request fails or carries no score, get_best_move
\* still returns the move of the first request, with the dash as evaluation,
\* and no error leaves the call.
C13_EvalFailureGivesUnknown ==
    (Returns("get_best_move") /\ last.eng.score.kind \in {"fail", "noscore"})
        => /\ ~last.raised
           /\ last.result \in {"shown", "applied"}
           /\ last.eng.move # NoMove
           /\ best_move_info = last.eng.move
           /\ best_move_label # Dash
           /\ best_move_label.uci = uci_of(last.eng.move[1])
           /\ eval_label = Dash

C13_Witness ==
    /\ Returns("get_best_move")
    /\ last.eng.score.kind = "noscore"
    /\ best_move_info = last.eng.move
    /\ best_move_info # NoMove
    /\ eval_label = Dash

\* the kinds of the engine events of a call, in the order they happened
EventKinds(events) == [i \in 1..Len(events) |-> events[i].e]

\* a query is outstanding: get_best_move has spawned and not yet returned
QueryOutstanding == pc \in {"time", "play", "analyse", "show"}

\* the events of a call that got a move are spawn, play, analyse, quit
C14_EventOrder ==
    (Returns("get_best_move") /\ last.eng.move # NoMove)
        => EventKinds(last.eng.events) = <<"spawn", "play", "analyse", "quit">>

\* one process per call, and none when the spawn failed
C14_OneProcess ==
    Returns("get_best_move")
        => /\ last.eng.spawned = Len(SelectSeq(last.eng.events,
                                               LAMBDA x : x.e = "spawn"))
           /\ last.eng.spawned <= 1
           /\ last.eng.events # <<>> => last.eng.events[1].e = "spawn"

\* both requests see the position the call started with
C14_SamePosition ==
    QueryOutstanding => (board = call.pre.board /\ turn = call.pre.turn)

\* no evaluation request without a move
C14_NoAnalyseWithoutMove ==
    (Returns("get_best_move") /\ last.eng.move = NoMove)
        => \A i \in 1..Len(last.eng.events) : last.eng.events[i].e # "analyse"

\* no engine process while no query is outstanding
C14_NoProcessWhenIdle == ~QueryOutstanding => alive = 0

\* C14: within one get_best_move call the engine events are spawn, play,
\* analyse, quit in this order; one process is spawned per call and both
\* requests go to it for the same position; analyse is never requested when
\* play gave no move; and no engine process is alive while no query is
\* outstanding.
C14_EngineLifecycle ==
    /\ C14_EventOrder
    /\ C14_OneProcess
    /\ C14_SamePosition
    /\ C14_NoAnalyseWithoutMove
    /\ C14_NoProcessWhenIdle

\* the time budgets of the play and analyse requests among the events
RequestBudgets(events) ==
    { events[i].t : i \in { j \in 1..Len(events) :
                              events[j].e \in {"play", "analyse"} } }

\* C15: the time budget of the play and of the analyse request is > 0: a
\* budget <= 0 in the entry is replaced by ENGINE_TIME, a budget > 0 is used
\* as it is, and both requests of a call carry the same budget.
C15_TimeBudgetPositive ==
    /\ pc \in {"play", "analyse", "show"}
          => /\ call.t = IF time_var.v > 0 THEN time_var.v ELSE ENGINE_TIME
             /\ call.t > 0
             /\ RequestBudgets(call.eng.events) \subseteq {call.t}
    /\ Returns("get_best_move")
          => /\ \A t \in RequestBudgets(last.eng.events) : t > 0
             /\ Cardinality(RequestBudgets(last.eng.events)) <= 1

C15_Witness ==
    /\ pc = "show"
    /\ time_var.v <= 0
    /\ call.t = ENGINE_TIME
    /\ EventKinds(call.eng.events) = <<"spawn", "play", "analyse">>
    /\ RequestBudgets(call.eng.events) = {ENGINE_TIME}

\* the handler that returned last committed a click move, placed a piece or
\* removed one
CommittedEdit ==
    \/ Returns("on_square_click") /\ last.result = "moved"
    \/ Returns("right_click_place") /\ last.result \in {"placed", "removed"}

\* C16: right after a move committed by a click pair, a successful placement
\* and a removal, no best move is cached and both labels show the dash.
C16_CacheClearedOnEdit ==
    CommittedEdit
        => /\ best_move_info = NoMove
           /\ best_move_label = Dash
           /\ eval_label = Dash

C16_Witness ==
    /\ Returns("on_square_click") /\ last.result = "moved"
    /\ last.pre.info # NoMove
    /\ last.pre.bml # Dash
    /\ last.pre.evl # Dash
    /\ best_move_info = NoMove /\ best_move_label = Dash /\ eval_label = Dash

\* C17: flip_side changes the turn to the opposite side and nothing else:
\* every square, the selection, the cached best move and the labels are as
\* before; a second flip right after the first restores the turn.
C17_FlipChangesOnlyTurn ==
    Returns("flip_side")
        => /\ turn = ~last.pre.turn
           /\ board = last.pre.board
           /\ selected_square = last.pre.sel
           /\ best_move_info = last.pre.info
           /\ best_move_label = last.pre.bml
           /\ eval_label = last.pre.evl
           /\ last.prev.op = "flip_side" => turn = last.prev.turn

C17_Witness ==
    /\ Returns("flip_side")
    /\ last.prev.op = "flip_side"
    /\ last.pre.sel # NoSquare
    /\ selected_square = last.pre.sel
    /\ turn = last.prev.turn

\* the number an evaluation label shows, in hundredths
ShownValue(l) == (IF l.neg THEN -1 ELSE 1) * (l.whole * 100 + l.frac)

\* C18: a centipawn evaluation is shown relative to white: an engine score s
\* relative to the side to move is shown as s with white to move and as -s
\* with black to move, the sign included.
C18_CentipawnWhiteRelative ==
    (ShowedBestMove /\ last.eng.score.kind = "cp")
        => /\ eval_label.text = "cp"
           /\ eval_label.frac \in 0..99
           /\ ShownValue(eval_label) = IF last.pre.turn = WHITE
                                       THEN last.eng.score.n
                                       ELSE - last.eng.score.n
           /\ eval_label.neg = (ShownValue(eval_label) < 0)

C18_Witness ==
    /\ ShowedBestMove
    /\ last.result = "shown"
    /\ last.pre.turn = BLACK
    /\ last.eng.score = [kind |-> "cp", n |-> 150]
    /\ eval_label = [text |-> "cp", neg |-> TRUE, whole |-> 1, frac |-> 50]

\* C19: whenever a square is selected, that square holds a piece of the
\* current position, whatever handlers ran before.
C19_SelectedSquareOccupied ==
    selected_square # NoSquare => board[parse_square(selected_square)] # None

\* C20: whenever a best move is cached, the position and the turn are the
\* ones the last successful get_best_move computed it for.
C20_CachedMoveIsCurrent ==
    (pc = "idle" /\ best_move_info # NoMove)
        => /\ board = last.query.board
           /\ turn = last.query.turn

====
